---- MODULE Spec2Model ----
(***************************************************************************)
(* The capture example of wgpu-rs (examples/capture/main.rs): a capture    *)
(* loop that renders into a texture every tick and, when a staging buffer  *)
(* is available, copies the texture into it, a per-capture task that maps  *)
(* the buffer and sends it back on the channel, and a thread that polls    *)
(* the device while the device is alive.                                   *)
(*                                                                         *)
(* Threads: the capture loop and the tasks it spawns run on the one thread *)
(* that called smol::run, so a task is polled only while the loop is       *)
(* suspended at its Delay, and the loop resumes only between task polls.   *)
(* The polling thread runs concurrently with both.                         *)
(***************************************************************************)
EXTENDS Integers, Sequences, FiniteSets

\* the seeding loop `for _ in 0..1`
PoolSize == 1

\* number of loop iterations explored
MaxTicks == 5

Buffers == 1..PoolSize
Ticks == 1..MaxTicks

\* Err(TryRecvError::Empty) of try_recv
NoBuffer == 0

VARIABLES
    pc,                     \* position of the capture loop
    tick,                   \* number of loop iterations started
    output_buffer,          \* the loop's local: result of try_recv
    staging_depth_buffer,   \* contents of the unbounded channel
    tasks,                  \* the task spawned by each tick, if any
    queue,                  \* submissions the device has not executed yet
    texture,                \* frame held by the render target
    contents,               \* frame held by each staging buffer
    mapState,               \* mapping state of each staging buffer
    device,                 \* the loop owns its Arc<Device>
    pumpPc,                 \* position of the polling thread
    pumpDevice,             \* the polling thread holds an upgraded Arc
    released                \* a send completed since the last try_recv

vars == << pc, tick, output_buffer, staging_depth_buffer, tasks, queue,
           texture, contents, mapState, device, pumpPc, pumpDevice, released >>

loopVars == << pc, tick, output_buffer >>
deviceVars == << queue, texture, contents, mapState >>
pumpVars == << pumpPc, pumpDevice >>

NoTask == [pc |-> "none", buf |-> NoBuffer, reqs |-> 0, sent |-> 0]

TaskPcs == {"none", "spawned", "awaiting", "send", "done", "map_err", "send_err"}

TypeOK ==
    /\ pc \in {"try_recv", "submit", "spawn", "delay", "panicked"}
    /\ tick \in 0..MaxTicks
    /\ output_buffer \in Buffers \cup {NoBuffer}
    /\ staging_depth_buffer \in Seq(Buffers)
    /\ tasks \in [Ticks -> [pc : TaskPcs, buf : Buffers \cup {NoBuffer},
                            reqs : Nat, sent : 0..MaxTicks]]
    /\ queue \in Seq([frame : Ticks, dst : Buffers \cup {NoBuffer}])
    /\ texture \in 0..MaxTicks
    /\ contents \in [Buffers -> 0..MaxTicks]
    /\ mapState \in [Buffers -> {"unmapped", "pending", "mapped", "failed", "dropped"}]
    /\ device \in BOOLEAN
    /\ pumpPc \in {"upgrade", "poll", "sleep", "exited"}
    /\ pumpDevice \in BOOLEAN
    /\ released \in BOOLEAN

Init ==
    /\ pc = "try_recv"
    /\ tick = 0
    /\ output_buffer = NoBuffer
    /\ staging_depth_buffer = [i \in 1..PoolSize |-> i]
    /\ tasks = [t \in Ticks |-> NoTask]
    /\ queue = << >>
    /\ texture = 0
    /\ contents = [b \in Buffers |-> 0]
    /\ mapState = [b \in Buffers |-> "unmapped"]
    /\ device = TRUE
    /\ pumpPc = "upgrade"
    /\ pumpDevice = FALSE
    /\ released = FALSE

----------------------------------------------------------------------------
(* The capture loop *)

\* TryRecv as a blocking recv: the iteration waits for a buffer
TryRecv_Blocking ==
    /\ pc = "try_recv"
    /\ tick < MaxTicks
    /\ staging_depth_buffer # << >>
    /\ tick' = tick + 1
    /\ output_buffer' = Head(staging_depth_buffer)
    /\ staging_depth_buffer' = Tail(staging_depth_buffer)
    /\ released' = FALSE
    /\ pc' = "submit"
    /\ UNCHANGED << tasks, deviceVars, device, pumpVars >>

\* TryRecv with map_read called as soon as the buffer is received, ahead of
\* the submission of the copy
TryRecv_MapEarly ==
    /\ pc = "try_recv"
    /\ tick < MaxTicks
    /\ tick' = tick + 1
    /\ IF staging_depth_buffer = << >>
          THEN /\ output_buffer' = NoBuffer
               /\ UNCHANGED << staging_depth_buffer, mapState >>
          ELSE /\ output_buffer' = Head(staging_depth_buffer)
               /\ staging_depth_buffer' = Tail(staging_depth_buffer)
               /\ mapState' = [mapState EXCEPT ![Head(staging_depth_buffer)] = "pending"]
    /\ released' = FALSE
    /\ pc' = "submit"
    /\ UNCHANGED << tasks, queue, texture, contents, device, pumpVars >>

\* TryRecv reading the head of the channel without removing it
TryRecv_Peek ==
    /\ pc = "try_recv"
    /\ tick < MaxTicks
    /\ tick' = tick + 1
    /\ output_buffer' = IF staging_depth_buffer = << >>
                            THEN NoBuffer ELSE Head(staging_depth_buffer)
    /\ released' = FALSE
    /\ pc' = "submit"
    /\ UNCHANGED << staging_depth_buffer, tasks, deviceVars, device, pumpVars >>

\* staging_depth_buffer_recv.try_recv(): pops the head or reports Empty
TryRecv ==
    /\ pc = "try_recv"
    /\ tick < MaxTicks
    /\ tick' = tick + 1
    /\ IF staging_depth_buffer = << >>
          THEN /\ output_buffer' = NoBuffer
               /\ UNCHANGED staging_depth_buffer
          ELSE /\ output_buffer' = Head(staging_depth_buffer)
               /\ staging_depth_buffer' = Tail(staging_depth_buffer)
    /\ released' = FALSE
    /\ pc' = "submit"
    /\ UNCHANGED << tasks, deviceVars, device, pumpVars >>

\* Submit with the copy left out of the submitted commands
Submit_NoCopy ==
    /\ pc = "submit"
    /\ queue' = Append(queue, [frame |-> tick, dst |-> NoBuffer])
    /\ pc' = "spawn"
    /\ UNCHANGED << tick, output_buffer, staging_depth_buffer, tasks, texture,
                    contents, mapState, device, pumpVars, released >>

\* Submit with the copy recorded whether or not a buffer was received, into
\* the first staging buffer
Submit_AlwaysCopy ==
    /\ pc = "submit"
    /\ queue' = Append(queue, [frame |-> tick,
                               dst |-> IF output_buffer = NoBuffer
                                          THEN 1 ELSE output_buffer])
    /\ pc' = "spawn"
    /\ UNCHANGED << tick, output_buffer, staging_depth_buffer, tasks, texture,
                    contents, mapState, device, pumpVars, released >>

\* the encoder holds the render pass and, if a buffer was received, the copy
\* of the texture into it; queue.submit hands it to the device and returns
Submit ==
    /\ pc = "submit"
    /\ queue' = Append(queue, [frame |-> tick, dst |-> output_buffer])
    /\ pc' = "spawn"
    /\ UNCHANGED << tick, output_buffer, staging_depth_buffer, tasks, texture,
                    contents, mapState, device, pumpVars, released >>

\* Spawn with the received buffer dropped at the end of the iteration
\* instead of moved into a task
Spawn_DropBuffer ==
    /\ pc = "spawn"
    /\ output_buffer' = NoBuffer
    /\ pc' = "delay"
    /\ UNCHANGED << tick, staging_depth_buffer, tasks, deviceVars, device,
                    pumpVars, released >>

\* Spawn for a loop that waits for the device to finish the submission
\* before it goes on
Spawn_AfterCompletion ==
    /\ pc = "spawn"
    /\ queue = << >>
    /\ IF output_buffer # NoBuffer
          THEN tasks' = [tasks EXCEPT ![tick] =
                            [pc |-> "spawned", buf |-> output_buffer,
                             reqs |-> 0, sent |-> 0]]
          ELSE UNCHANGED tasks
    /\ output_buffer' = NoBuffer
    /\ pc' = "delay"
    /\ UNCHANGED << tick, staging_depth_buffer, deviceVars, device, pumpVars,
                    released >>

\* if a buffer was received it moves into a detached task
Spawn ==
    /\ pc = "spawn"
    /\ IF output_buffer # NoBuffer
          THEN tasks' = [tasks EXCEPT ![tick] =
                            [pc |-> "spawned", buf |-> output_buffer,
                             reqs |-> 0, sent |-> 0]]
          ELSE UNCHANGED tasks
    /\ output_buffer' = NoBuffer
    /\ pc' = "delay"
    /\ UNCHANGED << tick, staging_depth_buffer, deviceVars, device, pumpVars,
                    released >>

\* a task is between its map_read resolving and its send completing
TaskRunning == \E t \in Ticks : tasks[t].pc = "send"

\* Delay::new(1ms).await completes and the loop starts its next iteration
Delay ==
    /\ pc = "delay"
    /\ ~TaskRunning
    /\ pc' = "try_recv"
    /\ UNCHANGED << tick, output_buffer, staging_depth_buffer, tasks,
                    deviceVars, device, pumpVars, released >>

----------------------------------------------------------------------------
(* The per-capture task *)

\* Buffer::map_read registers a mapping request with the device
MapRead(b) ==
    [mapState EXCEPT ![b] = IF @ = "unmapped" THEN "pending" ELSE @]

\* TaskStart with the buffer sent back to the channel before its mapping
\* has resolved
TaskStart_ReleaseEarly(t) ==
    /\ pc = "delay"
    /\ ~TaskRunning
    /\ tasks[t].pc = "spawned"
    /\ mapState' = MapRead(tasks[t].buf)
    /\ staging_depth_buffer' = Append(staging_depth_buffer, tasks[t].buf)
    /\ tasks' = [tasks EXCEPT ![t].pc = "awaiting", ![t].reqs = @ + 1]
    /\ UNCHANGED << loopVars, queue, texture, contents, device, pumpVars,
                    released >>

\* first poll of the task: map_read is called and the task awaits it
TaskStart(t) ==
    /\ pc = "delay"
    /\ ~TaskRunning
    /\ tasks[t].pc = "spawned"
    /\ mapState' = MapRead(tasks[t].buf)
    /\ tasks' = [tasks EXCEPT ![t].pc = "awaiting", ![t].reqs = @ + 1]
    /\ UNCHANGED << loopVars, staging_depth_buffer, queue, texture, contents,
                    device, pumpVars, released >>

\* TaskResume without the inner block: the mapping outlives the send
TaskResume_KeepMapping(t) ==
    /\ pc = "delay"
    /\ ~TaskRunning
    /\ tasks[t].pc = "awaiting"
    /\ mapState[tasks[t].buf] \in {"mapped", "failed"}
    /\ IF mapState[tasks[t].buf] = "mapped"
          THEN /\ tasks' = [tasks EXCEPT ![t].pc = "send"]
               /\ UNCHANGED << pc, device, mapState >>
          ELSE /\ mapState' = [mapState EXCEPT ![tasks[t].buf] = "dropped"]
               /\ tasks' = [tasks EXCEPT ![t].pc = "map_err"]
               /\ pc' = "panicked"
               /\ device' = FALSE
    /\ UNCHANGED << tick, output_buffer, staging_depth_buffer, queue, texture,
                    contents, pumpVars, released >>

\* TaskResume asking for the mapping again when map_read yields Err
TaskResume_Retry(t) ==
    /\ pc = "delay"
    /\ ~TaskRunning
    /\ tasks[t].pc = "awaiting"
    /\ mapState[tasks[t].buf] \in {"mapped", "failed"}
    /\ IF mapState[tasks[t].buf] = "mapped"
          THEN /\ mapState' = [mapState EXCEPT ![tasks[t].buf] = "unmapped"]
               /\ tasks' = [tasks EXCEPT ![t].pc = "send"]
          ELSE /\ mapState' = [mapState EXCEPT ![tasks[t].buf] = "pending"]
               /\ tasks' = [tasks EXCEPT ![t].reqs = @ + 1]
    /\ UNCHANGED << loopVars, device, staging_depth_buffer, queue, texture,
                    contents, pumpVars, released >>

\* TaskResume with the Err of map_read discarded instead of unwrapped: the
\* task ends and drops the buffer, nothing panics
TaskResume_IgnoreErr(t) ==
    /\ pc = "delay"
    /\ ~TaskRunning
    /\ tasks[t].pc = "awaiting"
    /\ mapState[tasks[t].buf] \in {"mapped", "failed"}
    /\ IF mapState[tasks[t].buf] = "mapped"
          THEN /\ mapState' = [mapState EXCEPT ![tasks[t].buf] = "unmapped"]
               /\ tasks' = [tasks EXCEPT ![t].pc = "send"]
          ELSE /\ mapState' = [mapState EXCEPT ![tasks[t].buf] = "dropped"]
               /\ tasks' = [tasks EXCEPT ![t].pc = "map_err"]
    /\ UNCHANGED << loopVars, device, staging_depth_buffer, queue, texture,
                    contents, pumpVars, released >>

\* TaskResume sending the buffer straight back when map_read yields Err
TaskResume_ReturnOnErr(t) ==
    /\ pc = "delay"
    /\ ~TaskRunning
    /\ tasks[t].pc = "awaiting"
    /\ mapState[tasks[t].buf] \in {"mapped", "failed"}
    /\ IF mapState[tasks[t].buf] = "mapped"
          THEN /\ mapState' = [mapState EXCEPT ![tasks[t].buf] = "unmapped"]
               /\ tasks' = [tasks EXCEPT ![t].pc = "send"]
               /\ UNCHANGED << staging_depth_buffer, released >>
          ELSE /\ mapState' = [mapState EXCEPT ![tasks[t].buf] = "unmapped"]
               /\ tasks' = [tasks EXCEPT ![t].pc = "done", ![t].sent = tick]
               /\ staging_depth_buffer' = Append(staging_depth_buffer, tasks[t].buf)
               /\ released' = TRUE
    /\ UNCHANGED << loopVars, device, queue, texture, contents, pumpVars >>

\* map_read(..).await.unwrap(): on Ok the mapping is dropped at the end of
\* the inner block, which unmaps the buffer; on Err the unwrap panics, the
\* panic unwinds the thread running smol::run, and run()'s locals are dropped
TaskResume(t) ==
    /\ pc = "delay"
    /\ ~TaskRunning
    /\ tasks[t].pc = "awaiting"
    /\ mapState[tasks[t].buf] \in {"mapped", "failed"}
    /\ IF mapState[tasks[t].buf] = "mapped"
          THEN /\ mapState' = [mapState EXCEPT ![tasks[t].buf] = "unmapped"]
               /\ tasks' = [tasks EXCEPT ![t].pc = "send"]
               /\ UNCHANGED << pc, device >>
          ELSE /\ mapState' = [mapState EXCEPT ![tasks[t].buf] = "dropped"]
               /\ tasks' = [tasks EXCEPT ![t].pc = "map_err"]
               /\ pc' = "panicked"
               /\ device' = FALSE
    /\ UNCHANGED << tick, output_buffer, staging_depth_buffer, queue, texture,
                    contents, pumpVars, released >>

\* TaskSend on a channel the loop does not receive from
TaskSend_Elsewhere(t) ==
    /\ tasks[t].pc = "send"
    /\ tasks' = [tasks EXCEPT ![t].pc = "done", ![t].sent = tick]
    /\ released' = TRUE
    /\ UNCHANGED << loopVars, staging_depth_buffer, deviceVars, device, pumpVars >>

\* TaskSend on a bounded channel created with room for one buffer fewer than
\* the pool holds: the send waits for capacity
TaskSend_Bounded(t) ==
    /\ tasks[t].pc = "send"
    /\ Len(staging_depth_buffer) < PoolSize - 1
    /\ staging_depth_buffer' = Append(staging_depth_buffer, tasks[t].buf)
    /\ tasks' = [tasks EXCEPT ![t].pc = "done", ![t].sent = tick]
    /\ released' = TRUE
    /\ UNCHANGED << loopVars, deviceVars, device, pumpVars >>

\* the receiver, a local of run(), has been dropped: the channel is closed
ChannelClosed == pc = "panicked"

\* sender.send(output_buffer).await.unwrap(): the channel is unbounded, so
\* the send completes at once and the task ends; on a closed channel the
\* send returns Err and the unwrap panics
TaskSend(t) ==
    /\ tasks[t].pc = "send"
    /\ IF ChannelClosed
          THEN /\ tasks' = [tasks EXCEPT ![t].pc = "send_err"]
               /\ UNCHANGED << staging_depth_buffer, released >>
          ELSE /\ staging_depth_buffer' = Append(staging_depth_buffer, tasks[t].buf)
               /\ tasks' = [tasks EXCEPT ![t].pc = "done", ![t].sent = tick]
               /\ released' = TRUE
    /\ UNCHANGED << loopVars, deviceVars, device, pumpVars >>

----------------------------------------------------------------------------
(* The device *)

\* index of the last submission in q that copies into b, 0 if none
LastCopy(q, b) ==
    LET S == {i \in DOMAIN q : q[i].dst = b}
    IN  IF S = {} THEN 0 ELSE CHOOSE i \in S : \A j \in S : j <= i

\* a copy into b has been submitted and not executed yet
CopyPending(b) == LastCopy(queue, b) # 0

\* the device executes the oldest submission: the render pass replaces the
\* texture, then the copy, if any, writes the texture into its destination
Execute ==
    /\ queue # << >>
    /\ texture' = Head(queue).frame
    /\ contents' = [b \in Buffers |->
                      IF Head(queue).dst = b THEN Head(queue).frame ELSE contents[b]]
    /\ queue' = Tail(queue)
    /\ UNCHANGED << loopVars, staging_depth_buffer, tasks, mapState, device,
                    pumpVars, released >>

\* Device::poll(Maintain::Wait): waits for every submission to finish, then
\* resolves each pending mapping request whose buffer the device no longer
\* uses, with success or with an error
Poll(result) ==
    /\ queue' = << >>
    /\ texture' = IF queue = << >> THEN texture ELSE queue[Len(queue)].frame
    /\ contents' = [b \in Buffers |->
                      IF CopyPending(b) THEN queue[LastCopy(queue, b)].frame
                                        ELSE contents[b]]
    /\ mapState' = [b \in Buffers |->
                      IF mapState[b] = "pending" THEN result[b] ELSE mapState[b]]

----------------------------------------------------------------------------
(* The polling thread *)

\* PumpUpgrade for a thread that captured a clone of the Arc, not a Weak
PumpUpgrade_Strong ==
    /\ pumpPc = "upgrade"
    /\ pumpDevice' = TRUE
    /\ pumpPc' = "poll"
    /\ UNCHANGED << loopVars, staging_depth_buffer, tasks, deviceVars, device,
                    released >>

\* while let Some(device) = weak.upgrade()
PumpUpgrade ==
    /\ pumpPc = "upgrade"
    /\ IF device
          THEN /\ pumpDevice' = TRUE
               /\ pumpPc' = "poll"
          ELSE /\ pumpDevice' = FALSE
               /\ pumpPc' = "exited"
    /\ UNCHANGED << loopVars, staging_depth_buffer, tasks, deviceVars, device,
                    released >>

\* device.poll(wgpu::Maintain::Wait)
PumpPoll ==
    /\ pumpPc = "poll"
    /\ \E result \in [Buffers -> {"mapped", "failed"}] : Poll(result)
    /\ pumpPc' = "sleep"
    /\ UNCHANGED << loopVars, staging_depth_buffer, tasks, device, pumpDevice,
                    released >>

\* PumpSleep for a thread that keeps the upgraded Arc across iterations
PumpSleep_KeepArc ==
    /\ pumpPc = "sleep"
    /\ pumpPc' = "upgrade"
    /\ UNCHANGED << loopVars, staging_depth_buffer, tasks, deviceVars, device,
                    pumpDevice, released >>

\* thread::sleep(1ms), then the upgraded Arc is dropped at the end of the body
PumpSleep ==
    /\ pumpPc = "sleep"
    /\ pumpDevice' = FALSE
    /\ pumpPc' = "upgrade"
    /\ UNCHANGED << loopVars, staging_depth_buffer, tasks, deviceVars, device,
                    released >>

----------------------------------------------------------------------------

Next ==
    \/ TryRecv
    \/ Submit
    \/ Spawn
    \/ Delay
    \/ \E t \in Ticks : TaskStart(t)
    \/ \E t \in Ticks : TaskResume(t)
    \/ \E t \in Ticks : TaskSend(t)
    \/ Execute
    \/ PumpUpgrade
    \/ PumpPoll
    \/ PumpSleep

Spec == Init /\ [][Next]_vars

\* the polling thread is an OS thread of its own: each of its steps is
\* eventually taken
FairSpec ==
    Spec /\ WF_vars(PumpUpgrade) /\ WF_vars(PumpPoll) /\ WF_vars(PumpSleep)

----------------------------------------------------------------------------
(* Lifecycle of a staging buffer, read off who holds it *)

Range(q) == {q[i] : i \in DOMAIN q}

\* tasks that own buffer b
Holding(b) == {t \in Ticks : tasks[t].buf = b /\ tasks[t].pc \in {"spawned", "awaiting", "send"}}

\* b sits in the channel
Free(b) == b \in Range(staging_depth_buffer)

\* b is held by the running iteration, or by a task whose map_read has not
\* resolved successfully
InFlight(b) ==
    \/ output_buffer = b
    \/ \E t \in Holding(b) : tasks[t].pc \in {"spawned", "awaiting"} /\ mapState[b] # "mapped"

\* the map_read of b has resolved successfully and b is not sent back yet
Mapped(b) ==
    \/ mapState[b] = "mapped"
    \/ \E t \in Holding(b) : tasks[t].pc = "send"

\* b was dropped by the panic of the task that held it
Lost(b) == \E t \in Ticks : tasks[t].buf = b /\ tasks[t].pc = "map_err"

\* number of holders of b: slots of the channel, the iteration, tasks
Owners(b) ==
    Cardinality({i \in DOMAIN staging_depth_buffer : staging_depth_buffer[i] = b})
    + (IF output_buffer = b THEN 1 ELSE 0)
    + Cardinality(Holding(b))

B2N(p) == IF p THEN 1 ELSE 0

----------------------------------------------------------------------------
(* Claims *)

\* C1: every staging buffer that still exists is in exactly one of Free,
\* In-Flight and Mapped, no buffer is in two of them at once, and a buffer
\* has at most one holder (channel slot, iteration or task) at a time
C1_BufferExclusivity ==
    \A b \in Buffers :
        /\ B2N(Free(b)) + B2N(InFlight(b)) + B2N(Mapped(b)) <= 1
        /\ ~Lost(b) => B2N(Free(b)) + B2N(InFlight(b)) + B2N(Mapped(b)) = 1
        /\ Owners(b) <= 1

\* a buffer has gone round the cycle and is held again while a later tick runs
C1_Witness ==
    \E b \in Buffers, t \in Ticks :
        /\ tasks[t].pc = "done" /\ tasks[t].buf = b
        /\ Mapped(b) /\ ~Free(b) /\ ~InFlight(b)
        /\ pc = "delay"

FreeCount == Len(staging_depth_buffer)

InFlightCount ==
    B2N(output_buffer # NoBuffer)
    + Cardinality({t \in Ticks : /\ tasks[t].pc \in {"spawned", "awaiting"}
                                 /\ mapState[tasks[t].buf] # "mapped"})

MappedCount ==
    Cardinality({t \in Ticks : \/ tasks[t].pc = "send"
                               \/ /\ tasks[t].pc \in {"spawned", "awaiting"}
                                  /\ mapState[tasks[t].buf] = "mapped"})

LostCount == Cardinality({t \in Ticks : tasks[t].pc = "map_err"})

\* C2: Free + In-Flight + Mapped + lost-on-failure buffers always add up to
\* the number of buffers seeded at startup
C2_Conservation ==
    FreeCount + InFlightCount + MappedCount + LostCount = PoolSize

\* a buffer has been lost to a mapping failure after an earlier full cycle
C2_Witness ==
    /\ LostCount = 1
    /\ FreeCount = 0
    /\ \E t \in Ticks : tasks[t].pc = "done"

\* number of submissions made so far: frames are numbered by tick and the
\* device executes them in order
Submitted == texture + Len(queue)

\* C3: the loop is never blocked inside an iteration, whatever the channel
\* holds and whatever mappings are unresolved: try_recv, submit and spawn
\* can always take their step, the Delay completes whenever the thread is
\* free, and every iteration started has submitted its render once it is
\* past the submit
C3_NoStall ==
    /\ (pc = "try_recv" /\ tick < MaxTicks) => ENABLED TryRecv
    /\ pc = "submit" => ENABLED Submit
    /\ pc = "spawn" => ENABLED Spawn
    /\ (pc = "delay" /\ ~TaskRunning) => ENABLED Delay
    /\ Submitted = IF pc = "submit" THEN tick - 1 ELSE tick

\* an iteration found the channel empty while a mapping was unresolved and
\* has submitted its render without a copy
C3_Witness ==
    /\ pc = "spawn"
    /\ output_buffer = NoBuffer
    /\ staging_depth_buffer = << >>
    /\ \E t \in Ticks : tasks[t].pc = "awaiting" /\ mapState[tasks[t].buf] = "pending"
    /\ queue # << >>
    /\ queue[Len(queue)] = [frame |-> tick, dst |-> NoBuffer]

\* captures under way: the iteration's buffer and the tasks not finished
InFlightCaptures ==
    B2N(output_buffer # NoBuffer)
    + Cardinality({t \in Ticks : tasks[t].pc \in {"spawned", "awaiting", "send"}})

\* C5: a buffer about to be submitted as a copy destination is unmapped and
\* has no copy outstanding, at most one copy per buffer is outstanding, each
\* buffer has at most one capture under way, a buffer is unmapped when it is
\* sent back and while it sits in the channel, and the captures under way
\* never outnumber the pool
C5_OneCapturePerBuffer ==
    /\ \A b \in Buffers :
          /\ (pc = "submit" /\ output_buffer = b) =>
                 (mapState[b] = "unmapped" /\ ~CopyPending(b))
          /\ Cardinality({i \in DOMAIN queue : queue[i].dst = b}) <= 1
          /\ B2N(output_buffer = b) + Cardinality(Holding(b)) <= 1
          /\ Free(b) => mapState[b] = "unmapped"
          /\ (\E t \in Holding(b) : tasks[t].pc = "send") => mapState[b] = "unmapped"
    /\ InFlightCaptures <= PoolSize

\* a recycled buffer is about to be submitted as a copy destination again
C5_Witness ==
    /\ pc = "submit"
    /\ output_buffer # NoBuffer
    /\ \E t \in Ticks : tasks[t].pc = "done" /\ tasks[t].buf = output_buffer

\* C6: the first try_recv after a completed send receives a buffer
C6_Recycling ==
    [][(pc = "try_recv" /\ pc' = "submit" /\ released) => output_buffer' # NoBuffer]_vars

\* a try_recv that directly followed a send has received the buffer
C6_Witness ==
    /\ pc = "submit"
    /\ output_buffer # NoBuffer
    /\ \E t \in Ticks : /\ tasks[t].pc = "done" /\ tasks[t].buf = output_buffer
                         /\ tasks[t].sent = tick - 1

\* iteration t is past its spawn
TickDone(t) == t < tick \/ (t = tick /\ pc \in {"delay", "try_recv", "panicked"})

\* iterations that rendered and captured nothing
Skipped == {t \in Ticks : TickDone(t) /\ tasks[t].pc = "none"}

\* no capture was mapped and sent back within the iteration that started it
SlowMapping == \A t \in Ticks : tasks[t].pc = "done" => tasks[t].sent > t

\* C7: with one buffer in the pool at most one capture is under way at any
\* time, and once five iterations have run with every mapping taking longer
\* than its own iteration, at least one of them captured nothing
C7_SingleBufferFiveTicks ==
    PoolSize = 1 =>
        /\ InFlightCaptures <= 1
        /\ (tick = 5 /\ TickDone(5) /\ SlowMapping) => Cardinality(Skipped) >= 1

\* five iterations have run with slow mappings: some captured, some skipped
C7_Witness ==
    /\ PoolSize = 1
    /\ tick = 5 /\ TickDone(5) /\ SlowMapping
    /\ \E t \in Ticks : tasks[t].pc = "done"
    /\ InFlightCaptures = 1
    /\ Cardinality(Skipped) >= 1

\* C4: a buffer is mapped only when no copy into it is outstanding and the
\* copy submitted by the iteration that received it has been executed
C4_MappedAfterCopy ==
    \A b \in Buffers :
        mapState[b] = "mapped" =>
            /\ ~CopyPending(b)
            /\ \E t \in Holding(b) : contents[b] = t

\* a recycled buffer is mapped a second time, while later renders are queued
C4_Witness ==
    \E b \in Buffers, t \in Ticks :
        /\ mapState[b] = "mapped"
        /\ tasks[t].pc = "done" /\ tasks[t].buf = b
        /\ queue # << >>

MapErr(t) == tasks[t].pc = "map_err"

\* C9: a buffer whose mapping failed is in no channel slot and has no
\* holder, while the error waits for the task and ever after; its task can
\* take no further step and asked for the mapping once; the buffers left to
\* the loop are one fewer per failure
C9_FailedBufferLost ==
    \A t \in Ticks :
        /\ tasks[t].reqs <= 1
        /\ (tasks[t].pc = "awaiting" /\ mapState[tasks[t].buf] = "failed") =>
               (~Free(tasks[t].buf) /\ output_buffer # tasks[t].buf)
        /\ MapErr(t) =>
               /\ ~Free(tasks[t].buf)
               /\ output_buffer # tasks[t].buf
               /\ Holding(tasks[t].buf) = {}
               /\ mapState[tasks[t].buf] = "dropped"
               /\ tasks[t].reqs = 1
               /\ ~ENABLED TaskStart(t)
               /\ ~ENABLED TaskResume(t)
               /\ ~ENABLED TaskSend(t)
               /\ FreeCount + InFlightCaptures = PoolSize - LostCount

\* a buffer that had been recycled before is lost to a mapping failure
C9_Witness ==
    \E t, u \in Ticks :
        /\ MapErr(t)
        /\ tasks[u].pc = "done" /\ tasks[u].buf = tasks[t].buf
        /\ FreeCount = 0 /\ InFlightCaptures = 0

C11_ReleaseSucceeds ==
    /\ FreeCount <= PoolSize
    /\ \A t \in Ticks :
          /\ tasks[t].pc # "send_err"
          /\ tasks[t].pc = "send" =>
                /\ ~ChannelClosed
                /\ ENABLED TaskSend(t)
                /\ FreeCount < PoolSize

\* a task is about to send back a buffer that has been recycled before,
\* while submissions are still queued on the device
C11_Witness ==
    \E t, u \in Ticks :
        /\ tasks[t].pc = "send"
        /\ tasks[u].pc = "done" /\ tasks[u].buf = tasks[t].buf
        /\ queue # << >>

\* C12: from the moment its map_read has resolved successfully until it is
\* sent back, the buffer of the task spawned by iteration t holds the frame
\* rendered by iteration t's own submission, whatever later iterations
\* have rendered into the texture since
C12_RoundTrip ==
    \A t \in Ticks :
        (\/ tasks[t].pc = "send"
         \/ tasks[t].pc = "awaiting" /\ mapState[tasks[t].buf] = "mapped")
            => contents[tasks[t].buf] = t

\* a buffer is mapped holding its own frame while the texture already holds
\* the frame of a later iteration
C12_Witness ==
    \E t \in Ticks :
        /\ tasks[t].pc = "awaiting"
        /\ mapState[tasks[t].buf] = "mapped"
        /\ contents[tasks[t].buf] = t
        /\ texture > t

\* the lifecycle state of buffer b
LifeState(b) ==
    IF Lost(b) THEN "Lost"
    ELSE IF Free(b) THEN "Free"
    ELSE IF Mapped(b) THEN "Mapped"
    ELSE IF InFlight(b) THEN "InFlight"
    ELSE "None"

\* the changes of lifecycle state one step may make
LifeSteps ==
    { << "Free", "InFlight" >>, << "InFlight", "Mapped" >>,
      << "Mapped", "Free" >>, << "InFlight", "Lost" >> }

\* C13: a step leaves the lifecycle state of a buffer as it is or moves it
\* Free to In-Flight, In-Flight to Mapped, Mapped to Free, or In-Flight to
\* lost; a buffer is never without a lifecycle state
C13_SequentialLifecycle ==
    [][\A b \in Buffers :
          /\ LifeState(b)' # "None"
          /\ \/ LifeState(b)' = LifeState(b)
             \/ << LifeState(b), LifeState(b)' >> \in LifeSteps]_vars

\* a buffer is on its second round: it was sent back, has been received
\* again and is mapped again
C13_Witness ==
    \E b \in Buffers, t, u \in Ticks :
        /\ t < u
        /\ tasks[t].pc = "done" /\ tasks[t].buf = b
        /\ tasks[u].pc = "awaiting" /\ tasks[u].buf = b
        /\ LifeState(b) = "Mapped"

\* what a capture touches: the channel, the tasks, the mappings
captureVars == << staging_depth_buffer, tasks, mapState >>

\* C14: the steps of an iteration whose try_recv found the channel empty
\* leave the channel, the tasks and the mappings as they are; its try_recv
\* returns no buffer, its submit adds one submission holding the render and
\* no copy, and its spawn step spawns nothing
C14_EmptyTickCapturesNothing ==
    [][/\ (pc = "try_recv" /\ pc' = "submit" /\ staging_depth_buffer = << >>) =>
            /\ output_buffer' = NoBuffer
            /\ UNCHANGED << captureVars, queue, contents >>
       /\ (pc = "submit" /\ pc' = "spawn" /\ output_buffer = NoBuffer) =>
            /\ queue' = Append(queue, [frame |-> tick, dst |-> NoBuffer])
            /\ UNCHANGED << captureVars, output_buffer >>
       /\ (pc = "spawn" /\ pc' = "delay" /\ output_buffer = NoBuffer) =>
            /\ UNCHANGED << captureVars, queue, output_buffer >>
            /\ tasks'[tick].pc = "none"]_vars

\* an iteration that found the channel empty has finished: it spawned
\* nothing, the capture of an earlier iteration is still awaiting its
\* mapping, and the device has executed this iteration's render
C14_Witness ==
    /\ pc = "delay"
    /\ tick >= 2
    /\ tasks[tick].pc = "none"
    /\ \E t \in Ticks : t < tick /\ tasks[t].pc = "awaiting"
    /\ texture = tick

\* C15: while the iteration holds its buffer no mapping of it has been
\* requested; a task has called map_read at most once, exactly once when it
\* is past its first poll, and only after its iteration's submission was
\* made; neither the spawn nor the task's first poll waits for the device
\* to execute the submission
C15_SubmitThenMapOnce ==
    /\ \A b \in Buffers : output_buffer = b => mapState[b] = "unmapped"
    /\ pc = "spawn" => ENABLED Spawn
    /\ \A t \in Ticks :
          /\ tasks[t].reqs <= 1
          /\ tasks[t].pc = "spawned" => tasks[t].reqs = 0
          /\ tasks[t].pc \in {"awaiting", "send", "done", "map_err"} => tasks[t].reqs = 1
          /\ tasks[t].reqs >= 1 => Submitted >= t
          /\ (tasks[t].pc = "spawned" /\ pc = "delay" /\ ~TaskRunning) =>
                ENABLED TaskStart(t)

\* the mapping of a buffer has been requested while the copy into it is
\* still queued on the device
C15_Witness ==
    \E t \in Ticks :
        /\ tasks[t].pc = "awaiting"
        /\ tasks[t].reqs = 1
        /\ mapState[tasks[t].buf] = "pending"
        /\ CopyPending(tasks[t].buf)

\* C16: the polling thread owns the device only inside an iteration; an
\* iteration begins only with an upgrade made while the loop still owns the
\* device; once the loop has dropped it the thread never acquires a handle
\* again, so it keeps the device alive at most to the end of the iteration
\* it was in
C16_PumpHoldsWeak ==
    /\ [](pumpDevice <=> pumpPc \in {"poll", "sleep"})
    /\ [][(pumpPc # "poll" /\ pumpPc' = "poll") => (pumpPc = "upgrade" /\ device)]_vars
    /\ [][~device => (pumpDevice' => pumpDevice)]_vars
    /\ [][(~device /\ pumpPc = "upgrade") => pumpPc' \in {"upgrade", "exited"}]_vars

\* the loop has dropped the device while the thread is inside an iteration
\* and still holds its upgraded handle
C16_Witness ==
    /\ ~device
    /\ pumpDevice
    /\ pumpPc = "poll"

----------------------------------------------------------------------------
(* Sizes *)

\* let size = 256u32
size == 256

\* size_of::<u32>()
SizeOfU32 == 4

\* a product computed in u32 keeps its low 32 bits
U32(x) == ((x \div 65536) % 65536) * 65536 + (x % 65536)

\* Extent3d { width: size, height: size, depth: 1 }
Width(s) == s
Height(s) == s

\* BufferDescriptor.size: (size * size) as u64 * size_of::<u32>() as u64
BufferSize(s) == U32(s * s) * SizeOfU32

\* the length given to map_read: (size * size) as u64 * size_of::<u32>() as u64
MapReadLen(s) == U32(s * s) * SizeOfU32

\* bytes_per_row counted in pixels, not in bytes
BytesPerRow_Pixels(s) == U32(s)

\* BufferCopyView.bytes_per_row: size_of::<u32>() as u32 * size
BytesPerRow(s) == U32(SizeOfU32 * s)

\* C17: for the image size the program sets, the size of every staging
\* buffer, the length of every map_read called and, for every copy
\* submitted, bytes_per_row times the height all equal width * height *
\* bytes per pixel; bytes_per_row is width * bytes per pixel; neither u32
\* product wraps
C17_SizesAgree ==
    /\ \A b \in Buffers :
          LifeState(b) # "None" =>
             /\ BufferSize(size) = Width(size) * Height(size) * SizeOfU32
             /\ U32(size * size) = size * size
    /\ \A t \in Ticks :
          tasks[t].reqs >= 1 =>
             /\ MapReadLen(size) = Width(size) * Height(size) * SizeOfU32
             /\ MapReadLen(size) = BufferSize(size)
    /\ \A i \in DOMAIN queue :
          queue[i].dst # NoBuffer =>
             /\ BytesPerRow(size) * Height(size) = Width(size) * Height(size) * SizeOfU32
             /\ BytesPerRow(size) * Height(size) = BufferSize(size)
             /\ BytesPerRow(size) = Width(size) * SizeOfU32
             /\ U32(SizeOfU32 * size) = SizeOfU32 * size

\* a copy with that row stride into a buffer of that size is queued and a
\* mapping over that length has been requested
C17_Witness ==
    /\ \E t \in Ticks : /\ tasks[t].pc = "awaiting"
                         /\ tasks[t].reqs = 1
                         /\ CopyPending(tasks[t].buf)
    /\ BufferSize(size) = 262144
    /\ MapReadLen(size) = 262144
    /\ BytesPerRow(size) = 1024

----------------------------------------------------------------------------
(* The loop running without end *)

\* iteration numbers only label frames and tasks; here they are reused
\* cyclically so that the loop, which never ends, has finitely many states
NextTick == IF tick = MaxTicks THEN 1 ELSE tick + 1

\* the records of the tasks that have ended are forgotten
LiveTasks == [t \in Ticks |-> IF tasks[t].pc = "done" THEN NoTask ELSE tasks[t]]

\* staging_depth_buffer_recv.try_recv() of an iteration of the endless loop
LiveTryRecv ==
    /\ pc = "try_recv"
    /\ tick' = NextTick
    /\ IF staging_depth_buffer = << >>
          THEN /\ output_buffer' = NoBuffer
               /\ UNCHANGED staging_depth_buffer
          ELSE /\ output_buffer' = Head(staging_depth_buffer)
               /\ staging_depth_buffer' = Tail(staging_depth_buffer)
    /\ tasks' = LiveTasks
    /\ released' = FALSE
    /\ pc' = "submit"
    /\ UNCHANGED << deviceVars, device, pumpVars >>

\* queue.submit of the endless loop; the device's backlog is kept finite
LiveSubmit ==
    /\ Len(queue) < MaxTicks
    /\ Submit

\* the thread's iteration without the call of device.poll
LivePumpPoll_NoPoll ==
    /\ pumpPc = "poll"
    /\ pumpPc' = "sleep"
    /\ UNCHANGED << loopVars, staging_depth_buffer, tasks, deviceVars, device,
                    pumpDevice, released >>

\* device.poll(wgpu::Maintain::Wait) on a device whose mappings succeed
LivePumpPoll ==
    /\ pumpPc = "poll"
    /\ Poll([b \in Buffers |-> "mapped"])
    /\ pumpPc' = "sleep"
    /\ UNCHANGED << loopVars, staging_depth_buffer, tasks, device, pumpDevice,
                    released >>

LiveNext ==
    \/ LiveTryRecv
    \/ LiveSubmit
    \/ Spawn
    \/ Delay
    \/ \E t \in Ticks : TaskStart(t)
    \/ \E t \in Ticks : TaskResume(t)
    \/ \E t \in Ticks : TaskSend(t)
    \/ Execute
    \/ PumpUpgrade
    \/ LivePumpPoll
    \/ PumpSleep

\* the steps of the loop, of which one at a time is enabled
LoopStep == LiveTryRecv \/ LiveSubmit \/ Spawn \/ Delay

\* the steps of the tasks
TaskStep == \E t \in Ticks : TaskStart(t) \/ TaskResume(t) \/ TaskSend(t)

\* the steps of the polling thread, of which one at a time is enabled
PumpStep == PumpUpgrade \/ LivePumpPoll \/ PumpSleep

\* the loop's timer fires and its steps are taken; the executor polls a
\* task that is ready again and again while the loop is suspended; the
\* device executes what is queued; the polling thread runs
LiveFairness ==
    /\ WF_vars(LoopStep)
    /\ SF_vars(TaskStep)
    /\ WF_vars(Execute)
    /\ WF_vars(PumpStep)

LiveSpec == Init /\ [][LiveNext]_vars /\ LiveFairness

\* C18: with fair scheduling and mappings that succeed, a buffer held by an
\* iteration or by a task awaiting its mapping is eventually mapped, a
\* mapped buffer is eventually back in the channel, the channel is
\* non-empty infinitely often, and iterations that received a buffer occur
\* infinitely often
C18_CaptureNeverStarves ==
    /\ \A b \in Buffers : InFlight(b) ~> Mapped(b)
    /\ \A b \in Buffers : Mapped(b) ~> Free(b)
    /\ []<>(staging_depth_buffer # << >>)
    /\ []<>(pc = "submit" /\ output_buffer # NoBuffer)

\* the buffer is back in the channel after a capture, iterations that found
\* the channel empty having run in between
C18_Witness ==
    /\ device
    /\ staging_depth_buffer # << >>
    /\ \E t \in Ticks : tasks[t].pc = "done" /\ tasks[t].sent # t
    /\ \A b \in Buffers : mapState[b] = "unmapped"

====
